---- MODULE Spec2Model ----
(***************************************************************************)
(* A model of the path-planning repository: the grid planner (A* over the  *)
(* cell grid), the line-of-sight path optimizer, the vision planner with   *)
(* its adaptive margin ladder and direct walker, and the execution loops   *)
(* of the two navigators against the command hub.                          *)
(*                                                                         *)
(* Positions are pairs <<x, y>>.  Python's 0-based list indices become     *)
(* 1-based sequence indices.  Costs that the code keeps as floats are kept *)
(* as integers in millionths (1.414 is 1414000), and math.sqrt is computed *)
(* to six decimals, which orders every f-score the bounded grids can       *)
(* produce exactly as the reals do.                                        *)
(***************************************************************************)
EXTENDS Integers, Sequences, FiniteSets, TLC

\* ------------------------------------------------------------------ bounds
\* The grid of robot_navigator.py is 65 x 60 cells; the model explores a
\* grid of grid_width x grid_height cells.
grid_width == 4
grid_height == 3
\* The largest number of blocked cells in an explored blocked-cell set that
\* is not a wall.
MaxBlocked == 1
\* The largest number of obstacles in a sensed scene of the vision planner.
MaxObstacles == 2
\* optimize_path on its own: the longest input path, the width of the
\* strip of cells its waypoints and the blocked cells are drawn from, and
\* the largest number of blocked cells.
MaxPathLen == 3
OptWidth == 3
MaxOptBlocked == 1
\* The largest collision_count the simulators drive the hub to.
MaxCollisions == 1
\* The longest obstacle list get_obstacles is explored on.
MaxInflated == 2
\* The largest number of /reset requests answered during a run.
MaxResets == 1

\* The largest collision_count at which ws_handler still gets a collision
\* message, where the two threads of the hub are modelled.
MaxCount == 2

VARIABLES
    obstacles,       \* RobotNavigator.obstacles: the set of blocked cells
    start,           \* the start cell handed to find_path
    goal,            \* the goal cell handed to find_path
    plan,            \* what find_path returned (found = FALSE models None)
    optimized_path,  \* what optimize_path returned
    pc,              \* the position of the planning call or of the run
    search,          \* open_set, came_from and g_score of the vision find_path
    search_margin,   \* the margin of the running vision find_path
    attempts,        \* the vision find_path calls that have returned
    direct_called,   \* whether find_direct_path has been called
    connected,       \* server.py: whether the set connected is non-empty
    collision_count, \* server.py: collision_count
    goal_reached,    \* server.py: goal_reached
    latest_canvas_capture, \* server.py: "none", or how old the stored capture is
    mode,            \* which navigator runs: "grid" or "vision"
    loop_path,       \* the list the for loop of navigate_to_goal iterates
    loop_i,          \* the 1-based position of that loop in loop_path
    outcome,         \* "running", or what navigate_to_goal returned
    moves_issued,    \* history: the number of /move requests of the run
    since_replan,    \* history: the targets of the /move requests since the last replan
    replanned,       \* history: whether a replan has completed
    rejected,        \* history: moves_issued at the first rejected /move request, or 0
    failure,         \* history: the kind of failure that ended the run, or "none"
    goal_reported,   \* history: whether a simulator reported the goal after a move of the loop
    sensed,          \* history: whether this planning cycle got its scene from the hub
    initial_obstacles, \* get_obstacles: the obstacle list it inflates
    collision_seen,  \* history: whether a collision poll of the run has returned true
    last_poll,       \* history: what the last collision poll returned, or "none"
    reset_since,     \* history: whether /reset was answered after a true collision poll
    resets,          \* history: the number of /reset requests answered
    ws_loaded,       \* ws_handler: the count it loaded for collision_count += 1, or -1
    reset_answered,  \* history: whether a /reset request has been answered
    processed_after, \* history: the collision messages processed after the last /reset
    steps            \* history: the steps taken since the loop of the run last advanced

planVars == <<obstacles, start, goal, plan, optimized_path, pc>>

ladderVars == <<search, search_margin, attempts, direct_called>>

hubVars == <<connected, collision_count, goal_reached, latest_canvas_capture>>

configVars == <<mode, initial_obstacles>>

loopVars == <<configVars, loop_path, loop_i, outcome>>

historyVars == <<moves_issued, since_replan, replanned, rejected>>

reportVars == <<failure, goal_reported, sensed>>

pollVars == <<collision_seen, last_poll, reset_since, resets>>

raceVars == <<ws_loaded, reset_answered, processed_after>>

navVars == <<hubVars, loopVars, historyVars, reportVars, pollVars, raceVars>>

vars == <<planVars, ladderVars, navVars, steps>>

\* Every step of a planner or of the navigator is counted; the count starts
\* again when the for loop of navigate_to_goal takes its next element.
StepTaken == steps' = IF loop_i' # loop_i THEN 0 ELSE steps + 1

\* ------------------------------------------------------------ arithmetic
Abs(n) == IF n < 0 THEN 0 - n ELSE n

Max(a, b) == IF a >= b THEN a ELSE b

Min(a, b) == IF a <= b THEN a ELSE b

ISqrt(n) == CHOOSE r \in 0..n : r * r <= n /\ (r + 1) * (r + 1) > n

RECURSIVE SqrtDigits(_, _, _)
\* Long-hand square root: `k` more decimal digits of a root whose digits so
\* far are `root`, with remainder `rem`.
SqrtDigits(root, rem, k) ==
    IF k = 0 THEN root
    ELSE LET r == rem * 100
             x == CHOOSE d \in 0..9 :
                      /\ (20 * root + d) * d <= r
                      /\ (20 * root + d + 1) * (d + 1) > r
         IN  SqrtDigits(10 * root + x, r - (20 * root + x) * x, k - 1)

\* math.sqrt(n) in millionths, rounded down.
Sqrt6(n) == SqrtDigits(ISqrt(n), n - ISqrt(n) * ISqrt(n), 6)

MaxSquaredDistance == grid_width * grid_width + grid_height * grid_height

SqrtTable == [n \in 0..MaxSquaredDistance |-> Sqrt6(n)]

\* ----------------------------------------------------------- grid planner
Cells == (0..(grid_width - 1)) \X (0..(grid_height - 1))

\* RobotNavigator.heuristic: the Euclidean distance, in millionths.
heuristic(a, b) ==
    SqrtTable[(a[1] - b[1]) * (a[1] - b[1]) + (a[2] - b[2]) * (a[2] - b[2])]

Directions ==
    << <<0, 1>>, <<1, 0>>, <<0, -1>>, <<-1, 0>>,
       <<1, 1>>, <<-1, -1>>, <<1, -1>>, <<-1, 1>> >>

\* A faulty get_neighbors that leaves out the four diagonal directions;
\* C6 fails on it.
get_neighbors_four(pos, obs) ==
    LET cand == [k \in 1..4 |->
                    <<pos[1] + Directions[k][1], pos[2] + Directions[k][2]>>]
        ok(c) == /\ 0 <= c[1] /\ c[1] < grid_width
                 /\ 0 <= c[2] /\ c[2] < grid_height
                 /\ c \notin obs
    IN  SelectSeq(cand, ok)

\* RobotNavigator.get_neighbors: the in-bounds, unblocked cells among the
\* eight around pos, in the order of the direction list.
get_neighbors(pos, obs) ==
    LET cand == [k \in 1..Len(Directions) |->
                    <<pos[1] + Directions[k][1], pos[2] + Directions[k][2]>>]
        ok(c) == /\ 0 <= c[1] /\ c[1] < grid_width
                 /\ 0 <= c[2] /\ c[2] < grid_height
                 /\ c \notin obs
    IN  SelectSeq(cand, ok)

\* The move cost of find_path: 1.414 for a diagonal step, 1 for an axis step.
move_cost(current, neighbor) ==
    IF Abs(neighbor[1] - current[1]) + Abs(neighbor[2] - current[2]) = 2
    THEN 1414000 ELSE 1000000

\* Python's order on the heap entries (f, (x, y)).
EntryLess(a, b) ==
    \/ a[1] < b[1]
    \/ /\ a[1] = b[1]
       /\ \/ a[2][1] < b[2][1]
          \/ a[2][1] = b[2][1] /\ a[2][2] < b[2][2]

\* heapq.heappop: the least entry of the open set.
heappop(open_set) ==
    CHOOSE e \in open_set : \A o \in open_set \ {e} : EntryLess(e, o)

RECURSIVE reconstruct_path_unreversed(_, _, _)
\* The path reconstruction without path.reverse(): the cells in the order
\* they are appended.
reconstruct_path_unreversed(came_from, current, acc) ==
    IF current \in DOMAIN came_from
    THEN reconstruct_path_unreversed(came_from, came_from[current], acc \o <<current>>)
    ELSE acc

RECURSIVE reconstruct_path(_, _, _)
\* The path reconstruction of find_path, before path.append(start) and
\* path.reverse(): current and its predecessors while current has one.
reconstruct_path(came_from, current, acc) ==
    IF current \in DOMAIN came_from
    THEN reconstruct_path(came_from, came_from[current], <<current>> \o acc)
    ELSE acc

RECURSIVE relax_neighbors_break(_, _, _, _, _)
\* The neighbour loop with a break after the first neighbour it records.
relax_neighbors_break(st, current, goal_, nbrs, k) ==
    IF k > Len(nbrs) THEN st
    ELSE LET neighbor == nbrs[k]
             tentative_g_score == st.g_score[current] + move_cost(current, neighbor)
             better == \/ neighbor \notin DOMAIN st.g_score
                       \/ tentative_g_score < st.g_score[neighbor]
         IN  IF better
             THEN [open_set  |-> st.open_set \cup
                                  {<<tentative_g_score + heuristic(neighbor, goal_),
                                     neighbor>>},
                   came_from |-> (neighbor :> current) @@ st.came_from,
                   g_score   |-> (neighbor :> tentative_g_score) @@ st.g_score,
                   updated   |-> st.updated \cup (IF neighbor \in DOMAIN st.g_score
                                 THEN {neighbor} ELSE {})]
             ELSE relax_neighbors_break(st, current, goal_, nbrs, k + 1)

RECURSIVE relax_neighbors(_, _, _, _, _)
\* The for loop of find_path over the neighbours of current, from the k-th.
relax_neighbors(st, current, goal_, nbrs, k) ==
    IF k > Len(nbrs) THEN st
    ELSE LET neighbor == nbrs[k]
             tentative_g_score == st.g_score[current] + move_cost(current, neighbor)
             better == \/ neighbor \notin DOMAIN st.g_score
                       \/ tentative_g_score < st.g_score[neighbor]
             next == IF better
                     THEN [open_set  |-> st.open_set \cup
                                          {<<tentative_g_score + heuristic(neighbor, goal_),
                                             neighbor>>},
                           came_from |-> (neighbor :> current) @@ st.came_from,
                           g_score   |-> (neighbor :> tentative_g_score) @@ st.g_score,
                           updated   |-> st.updated \cup (IF neighbor \in DOMAIN st.g_score
                                         THEN {neighbor} ELSE {})]
                     ELSE st
         IN  relax_neighbors(next, current, goal_, nbrs, k + 1)

\* The result of a search that found nothing.  updated is a history field:
\* the cells whose g-score and predecessor were overwritten during the search.
NoPath == [found |-> FALSE, path |-> <<>>, g_score |-> <<>>, came_from |-> <<>>,
           updated |-> {}]

RECURSIVE a_star_loop(_, _, _, _)
\* The while loop of find_path.
a_star_loop(st, start_, goal_, obs) ==
    IF st.open_set = {} THEN NoPath
    ELSE LET entry == heappop(st.open_set)
             current == entry[2]
             popped == [st EXCEPT !.open_set = st.open_set \ {entry}]
         IN  IF current = goal_
             THEN [found     |-> TRUE,
                   path      |-> <<start_>> \o reconstruct_path(st.came_from, current, <<>>),
                   g_score   |-> st.g_score,
                   came_from |-> st.came_from,
                   updated   |-> st.updated]
             ELSE a_star_loop(
                      relax_neighbors(popped, current, goal_,
                                      get_neighbors(current, obs), 1),
                      start_, goal_, obs)

\* A search that runs from the goal to the start, and returns its path in
\* that order.
find_path_from_goal(start_, goal_, obs) ==
    a_star_loop([open_set  |-> {<<0, goal_>>},
                 came_from |-> <<>>,
                 updated   |-> {},
                 g_score   |-> (goal_ :> 0)],
                goal_, start_, obs)

\* RobotNavigator.find_path.
find_path(start_, goal_, obs) ==
    a_star_loop([open_set  |-> {<<0, start_>>},
                 came_from |-> <<>>,
                 updated   |-> {},
                 g_score   |-> (start_ :> 0)],
                start_, goal_, obs)

\* ---------------------------------------------------- obstacle inflation
\* The constants of RobotNavigator.__init__ that get_obstacles reads: the
\* cell size in pixels, the grid of 65 x 60 cells and the robot size.
grid_size == 10
cells_wide == 65
cells_high == 60
robot_size == 18

\* The cells get_obstacles adds for one obstacle {x, y, size}: those within
\* margin cells of its centre cell on both axes that lie on the grid.
inflate(obs) ==
    LET x_grid == obs.x \div grid_size
        y_grid == obs.y \div grid_size
        margin == Max(1, (obs.size + robot_size) \div (2 * grid_size))
    IN  {<<x_grid + dx, y_grid + dy>> : dx \in (0 - margin)..margin,
                                        dy \in (0 - margin)..margin}
        \cap ((0..(cells_wide - 1)) \X (0..(cells_high - 1)))

\* The blocked-cell set get_obstacles builds from its obstacle list.
inflate_all(list) == UNION {inflate(list[k]) : k \in 1..Len(list)}

\* ------------------------------------------------------- path optimizer
RECURSIVE bresenham(_, _, _, _, _, _, _, _, _, _)
\* The while loop of is_line_clear.
bresenham(x0, y0, x1, y1, dx, dy, sx, sy, err, obs) ==
    IF <<x0, y0>> \in obs THEN FALSE
    ELSE IF x0 = x1 /\ y0 = y1 THEN TRUE
    ELSE LET e2 == 2 * err
             stepx == e2 > 0 - dy
             stepy == e2 < dx
         IN  bresenham(IF stepx THEN x0 + sx ELSE x0,
                       IF stepy THEN y0 + sy ELSE y0,
                       x1, y1, dx, dy, sx, sy,
                       err - (IF stepx THEN dy ELSE 0) + (IF stepy THEN dx ELSE 0),
                       obs)

\* RobotNavigator.is_line_clear.
is_line_clear(a, b, obs) ==
    LET dx == Abs(b[1] - a[1])
        dy == Abs(b[2] - a[2])
        sx == IF a[1] < b[1] THEN 1 ELSE -1
        sy == IF a[2] < b[2] THEN 1 ELSE -1
    IN  bresenham(a[1], a[2], b[1], b[2], dx, dy, sx, sy, dx - dy, obs)

\* A faulty scan_back that moves to j without testing the line; the
\* amended C3 fails on it.
scan_back_unchecked(path, obs, i, j) == j

RECURSIVE scan_back(_, _, _, _)
\* The inner while loop of optimize_path: the index the outer loop moves to,
\* the farthest j > i + 1 with a clear line from path[i], else i + 1.
scan_back(path, obs, i, j) ==
    IF j > i + 1
    THEN IF is_line_clear(path[i], path[j], obs)
         THEN j
         ELSE scan_back(path, obs, i, j - 1)
    ELSE j

RECURSIVE optimize_loop_keeps_current(_, _, _, _)
\* A faulty optimize_loop that appends the waypoint it leaves instead of
\* the one it moves to; C4 fails on it.
optimize_loop_keeps_current(path, obs, i, optimized) ==
    IF i < Len(path)
    THEN LET j == scan_back(path, obs, i, Len(path))
         IN  optimize_loop_keeps_current(path, obs, j, Append(optimized, path[i]))
    ELSE optimized

RECURSIVE optimize_loop(_, _, _, _)
\* The outer while loop of optimize_path.
optimize_loop(path, obs, i, optimized) ==
    IF i < Len(path)
    THEN LET j == scan_back(path, obs, i, Len(path))
         IN  optimize_loop(path, obs, j, Append(optimized, path[j]))
    ELSE optimized

\* A faulty optimize_path that also returns three-waypoint paths as they
\* are; C5 fails on it.
optimize_path_short(path, obs) ==
    IF Len(path) <= 3 THEN path
    ELSE optimize_loop(path, obs, 1, <<path[1]>>)

\* RobotNavigator.optimize_path.
optimize_path(path, obs) ==
    IF Len(path) <= 2 THEN path
    ELSE optimize_loop(path, obs, 1, <<path[1]>>)

\* --------------------------------------------------------- vision planner
canvas_width == 650
canvas_height == 600
robot_radius == 18
safety_margin == 35
step_size == 8
\* The clearance of find_direct_path (its "minimal safety margin") and the
\* path length after which it stops.
direct_margin == 20
direct_cap == 100

SquaredDistance(a, b) ==
    (a[1] - b[1]) * (a[1] - b[1]) + (a[2] - b[2]) * (a[2] - b[2])

RECURSIVE BisectSqrt(_, _, _)
\* The r with lo <= r < hi and r * r <= n < (r + 1) * (r + 1).
BisectSqrt(lo, hi, n) ==
    IF hi - lo <= 1 THEN lo
    ELSE LET mid == (lo + hi) \div 2
         IN  IF mid * mid <= n THEN BisectSqrt(mid, hi, n)
                               ELSE BisectSqrt(lo, mid, n)

FloorSqrt(n) == BisectSqrt(0, canvas_width + canvas_height, n)

\* The sign of e - 2 * d * sqrt(n), for e >= 0, d > 0 and n >= 0, in exact
\* integer arithmetic.
CompareToRoot(e, d, n) ==
    LET q == e \div (2 * d)
        r == e % (2 * d)
        s == FloorSqrt(n)
        lhs == 4 * d * s * r + r * r
        rhs == 4 * d * d * (n - s * s)
    IN  IF q < s THEN -1
        ELSE IF q > s THEN 1
        ELSE IF lhs < rhs THEN -1
        ELSE IF lhs > rhs THEN 1
        ELSE 0

\* g1 + sqrt(n1) < g2 + sqrt(n2): the order of two f-scores of the vision
\* planner, whose g counts steps and whose heuristic is a pixel distance.
FScoreLess(g1, n1, g2, n2) ==
    LET d == g2 - g1
    IN  IF d = 0 THEN n1 < n2
        ELSE IF d > 0
        THEN LET e == n1 - n2 - d * d
             IN  e < 0 \/ CompareToRoot(e, d, n2) = -1
        ELSE LET e == n2 - n1 - d * d
             IN  e > 0 /\ CompareToRoot(e, 0 - d, n1) = 1

\* Python's order on the heap entries (f, (x, y)) of the vision planner; an
\* entry is kept as <<g, h2, pos>> with f = g + sqrt(h2).
VisionEntryLess(a, b) ==
    \/ FScoreLess(a[1], a[2], b[1], b[2])
    \/ /\ ~FScoreLess(b[1], b[2], a[1], a[2])
       /\ \/ a[3][1] < b[3][1]
          \/ a[3][1] = b[3][1] /\ a[3][2] < b[3][2]

RECURSIVE EntriesBelow(_, _, _, _)
\* How many entries of the ordered open set are less than e, given that
\* the first lo are and those from hi + 1 on are not.
EntriesBelow(open_set, e, lo, hi) ==
    IF lo >= hi THEN lo
    ELSE LET mid == (lo + hi + 1) \div 2
         IN  IF VisionEntryLess(open_set[mid], e)
             THEN EntriesBelow(open_set, e, mid, hi)
             ELSE EntriesBelow(open_set, e, lo, mid - 1)

\* heapq.heappush, on an open set kept as the sequence of its entries in
\* increasing order, so that heappop takes its head.
heappush(open_set, e) ==
    LET k == EntriesBelow(open_set, e, 0, Len(open_set))
    IN  SubSeq(open_set, 1, k) \o <<e>> \o SubSeq(open_set, k + 1, Len(open_set))

\* The obstacle test of get_neighbors_with_margin and find_direct_path:
\* no obstacle centre is closer than margin.
IsClear(pos, obs, margin) ==
    \A o \in obs : SquaredDistance(pos, o) >= margin * margin

VisionDirections ==
    << <<0, step_size>>, <<step_size, 0>>, <<0, 0 - step_size>>, <<0 - step_size, 0>> >>

\* A neighbour test that ignores the margin it is given and keeps the
\* smallest margin of the ladder.
get_neighbors_with_margin_smallest(pos, obs, margin) ==
    LET cand == [k \in 1..Len(VisionDirections) |->
                    <<pos[1] + VisionDirections[k][1], pos[2] + VisionDirections[k][2]>>]
        ok(c) == /\ 0 <= c[1] /\ c[1] < canvas_width
                 /\ 0 <= c[2] /\ c[2] < canvas_height
                 /\ IsClear(c, obs, safety_margin - 20)
    IN  SelectSeq(cand, ok)

\* VisionBasedNavigator.get_neighbors_with_margin.
get_neighbors_with_margin(pos, obs, margin) ==
    LET cand == [k \in 1..Len(VisionDirections) |->
                    <<pos[1] + VisionDirections[k][1], pos[2] + VisionDirections[k][2]>>]
        ok(c) == /\ 0 <= c[1] /\ c[1] < canvas_width
                 /\ 0 <= c[2] /\ c[2] < canvas_height
                 /\ IsClear(c, obs, margin)
    IN  SelectSeq(cand, ok)

RECURSIVE vision_relax_neighbors(_, _, _, _, _)
\* The for loop of the vision find_path over the neighbours of current.
vision_relax_neighbors(st, current, goal_, nbrs, k) ==
    IF k > Len(nbrs) THEN st
    ELSE LET neighbor == nbrs[k]
             tentative_g_score == st.g_score[current] + 1
             better == \/ neighbor \notin DOMAIN st.g_score
                       \/ tentative_g_score < st.g_score[neighbor]
             next == IF better
                     THEN [open_set  |-> heappush(st.open_set,
                                             <<tentative_g_score,
                                               SquaredDistance(neighbor, goal_),
                                               neighbor>>),
                           came_from |-> (neighbor :> current) @@ st.came_from,
                           g_score   |-> (neighbor :> tentative_g_score) @@ st.g_score]
                     ELSE st
         IN  vision_relax_neighbors(next, current, goal_, nbrs, k + 1)

\* The goal test of the vision find_path: closer than 2 * robot_radius.
near_goal(pos, goal_) ==
    SquaredDistance(pos, goal_) < (robot_radius * 2) * (robot_radius * 2)

\* The state of the vision find_path on entry: start alone in the open
\* set, with f-score 0 and g-score 0.
search_entry(start_) ==
    [open_set  |-> << <<0, 0, start_>> >>,
     came_from |-> <<>>,
     g_score   |-> (start_ :> 0)]

\* One pass of the while loop of the vision find_path that does not end
\* the search: pop the least entry and relax its neighbours.
search_pass(st, goal_, obs, margin_) ==
    LET current == Head(st.open_set)[3]
        popped == [st EXCEPT !.open_set = Tail(st.open_set)]
    IN  vision_relax_neighbors(popped, current, goal_,
            get_neighbors_with_margin(current, obs, margin_), 1)

\* int((delta / distance) * step_size): step_size * delta / sqrt(d2), cut
\* toward zero.
direct_step(delta, d2) ==
    LET k == CHOOSE c \in 0..step_size :
                 /\ c * c * d2 <= step_size * step_size * delta * delta
                 /\ (c + 1) * (c + 1) * d2 > step_size * step_size * delta * delta
    IN  IF delta < 0 THEN 0 - k ELSE k

\* max(0, min(limit - 1, v)).
clamp(v, limit) == Max(0, Min(limit - 1, v))

\* One pass of the while loop of find_direct_path: the point it appends.
direct_next(current, goal_, obs) ==
    LET dx == goal_[1] - current[1]
        dy == goal_[2] - current[2]
        d2 == dx * dx + dy * dy
        nx == clamp(current[1] + direct_step(dx, d2), canvas_width)
        ny == clamp(current[2] + direct_step(dy, d2), canvas_height)
        safe == IsClear(<<nx, ny>>, obs, direct_margin)
        ax == IF safe \/ ~(Abs(dx) > Abs(dy)) THEN nx
              ELSE IF dx > 0 THEN current[1] + step_size
              ELSE current[1] - step_size
        ay == IF safe \/ Abs(dx) > Abs(dy) THEN ny
              ELSE IF dy > 0 THEN current[2] + step_size
              ELSE current[2] - step_size
    IN  IF safe THEN <<nx, ny>>
        ELSE <<clamp(ax, canvas_width), clamp(ay, canvas_height)>>

\* ------------------------------------------ the planner as a state machine
\* RobotNavigator.start and RobotNavigator.goal, (32, 30) and (55, 8) on the
\* 65 x 60 grid: the goal lies to the right of and above the start.
default_start == <<0, grid_height - 1>>

default_goal == <<grid_width - 1, 0>>

\* The planner called on its own: no hub, no run.
NoRun(m) ==
    /\ connected = FALSE
    /\ collision_count = 0
    /\ goal_reached = FALSE
    /\ latest_canvas_capture = "none"
    /\ mode = m
    /\ loop_path = <<>>
    /\ loop_i = 0
    /\ outcome = "running"
    /\ moves_issued = 0
    /\ since_replan = <<>>
    /\ replanned = FALSE
    /\ rejected = 0
    /\ failure = "none"
    /\ goal_reported = FALSE
    /\ sensed = FALSE
    /\ initial_obstacles = <<>>
    /\ collision_seen = FALSE
    /\ last_poll = "none"
    /\ reset_since = FALSE
    /\ resets = 0
    /\ ws_loaded = 0 - 1
    /\ reset_answered = FALSE
    /\ processed_after = 0
    /\ steps = 0

\* A wall: the cells of one grid column from row a to row b.  A whole
\* column cuts the grid in two, a shorter one leaves a gap to go round.
Walls ==
    {{<<x, y>> : y \in a..b} :
        x \in 0..(grid_width - 1), a \in 0..(grid_height - 1), b \in 0..(grid_height - 1)}

\* The blocked-cell sets a planning call is made on.
BlockedSets == {s \in SUBSET Cells : Cardinality(s) <= MaxBlocked} \cup Walls

RECURSIVE SeqsUpTo(_, _)
SeqsUpTo(S, n) ==
    IF n = 0 THEN {<<>>}
    ELSE LET shorter == SeqsUpTo(S, n - 1)
         IN  shorter \cup {Append(s, x) : s \in shorter, x \in S}

\* A planning call on some blocked-cell set, start and goal.
InitGrid ==
    /\ obstacles \in BlockedSets
    /\ start \in Cells
    /\ goal \in Cells
    /\ plan = NoPath
    /\ optimized_path = <<>>
    /\ pc = "find_path"
    /\ search = search_entry(start)
    /\ search_margin = safety_margin
    /\ attempts = <<>>
    /\ direct_called = FALSE
    /\ NoRun("grid")

FindPath ==
    /\ pc = "find_path"
    /\ plan' = find_path(start, goal, obstacles)
    /\ pc' = IF plan'.found THEN "optimize_path" ELSE "no_path"
    /\ UNCHANGED <<obstacles, start, goal, optimized_path, ladderVars, navVars>>
    /\ StepTaken

OptimizePath ==
    /\ pc = "optimize_path"
    /\ optimized_path' = optimize_path(plan.path, obstacles)
    /\ pc' = "optimized"
    /\ UNCHANGED <<obstacles, start, goal, plan, ladderVars, navVars>>
    /\ StepTaken

NextGrid == FindPath \/ OptimizePath

SpecGrid == InitGrid /\ [][NextGrid]_vars

\* optimize_path on a path of its own: any non-empty sequence of cells of
\* a strip two cells high, the lowest in which a line of sight can be
\* blocked beside a clear detour.
OptCells == (0..(OptWidth - 1)) \X (0..1)

InitOpt ==
    /\ obstacles \in {s \in SUBSET OptCells : Cardinality(s) <= MaxOptBlocked}
    /\ \E p \in SeqsUpTo(OptCells, MaxPathLen) \ {<<>>} :
           /\ plan = [NoPath EXCEPT !.found = TRUE, !.path = p]
           /\ start = p[1]
           /\ goal = p[Len(p)]
    /\ optimized_path = <<>>
    /\ pc = "optimize_path"
    /\ search = search_entry(start)
    /\ search_margin = safety_margin
    /\ attempts = <<>>
    /\ direct_called = FALSE
    /\ NoRun("grid")

NextOpt == OptimizePath

SpecOpt == InitOpt /\ [][NextOpt]_vars

\* ------------------------------------ get_obstacles as a state machine
\* The obstacles get_obstacles is explored on: centres from its own list
\* and in the corners of the canvas, with the size of its list (25) and
\* two sizes for which (size + robot_size) / (2 * grid_size) is whole or
\* below one.
ObstaclePool ==
    {[x |-> c[1], y |-> c[2], size |-> z] :
        c \in {<<150, 120>>, <<450, 180>>, <<100, 450>>, <<0, 0>>, <<640, 590>>},
        z \in {25, 22, 1}}

InitInflate ==
    /\ initial_obstacles \in SeqsUpTo(ObstaclePool, MaxInflated)
    /\ obstacles = {}
    /\ start = default_start
    /\ goal = default_goal
    /\ plan = NoPath
    /\ optimized_path = <<>>
    /\ pc = "get_obstacles"
    /\ search = search_entry(start)
    /\ search_margin = safety_margin
    /\ attempts = <<>>
    /\ direct_called = FALSE
    /\ connected = FALSE
    /\ collision_count = 0
    /\ goal_reached = FALSE
    /\ latest_canvas_capture = "none"
    /\ mode = "grid"
    /\ loop_path = <<>>
    /\ loop_i = 0
    /\ outcome = "running"
    /\ moves_issued = 0
    /\ since_replan = <<>>
    /\ replanned = FALSE
    /\ rejected = 0
    /\ failure = "none"
    /\ goal_reported = FALSE
    /\ sensed = FALSE
    /\ collision_seen = FALSE
    /\ last_poll = "none"
    /\ reset_since = FALSE
    /\ resets = 0
    /\ ws_loaded = 0 - 1
    /\ reset_answered = FALSE
    /\ processed_after = 0
    /\ steps = 0

\* The loop of get_obstacles over its obstacle list.
InflateObstacles ==
    /\ pc = "get_obstacles"
    /\ obstacles' = inflate_all(initial_obstacles)
    /\ pc' = "inflated"
    /\ UNCHANGED <<start, goal, plan, optimized_path, ladderVars, navVars>>
    /\ StepTaken

NextInflate == InflateObstacles

SpecInflate == InitInflate /\ [][NextInflate]_vars

\* ------------------------------ the vision planner as a state machine
\* The scenes the vision planner is explored on: robot and goal positions
\* and obstacle centres in canvas pixels.  With the robot at <<100, 100>>
\* and the goal at <<100, 40>>, an obstacle at <<100, 120>> closes the robot
\* in at margin 35 but not at 25, one at <<100, 112>> at 35 and 25 but not
\* at 15, one at <<100, 100>> at every margin.  With the robot at <<0, 0>>
\* an obstacle at <<4, 4>> closes it in at every margin, and the goal at
\* <<640, 590>> is farther than the direct walker gets.
ObstaclePoints == {<<100, 120>>, <<100, 112>>, <<100, 100>>, <<4, 4>>, <<300, 300>>}

Scenes == {s \in SUBSET ObstaclePoints : Cardinality(s) <= MaxObstacles}

VisionScenes ==
    {[robot |-> <<100, 100>>, goal |-> <<100, 40>>, obstacles |-> o] : o \in Scenes}
    \cup
    {[robot |-> <<0, 0>>, goal |-> <<640, 590>>, obstacles |-> o \cup {<<4, 4>>}] :
        o \in Scenes}

InitVision ==
    /\ \E seen \in VisionScenes :
           /\ start = seen.robot
           /\ goal = seen.goal
           /\ obstacles = seen.obstacles
    /\ plan = NoPath
    /\ optimized_path = <<>>
    /\ pc = "find_path"
    /\ search = search_entry(start)
    /\ search_margin = safety_margin
    /\ attempts = <<>>
    /\ direct_called = FALSE
    /\ NoRun("vision")

\* The vision find_path pops a point that is not near the goal.
SearchPass ==
    /\ pc = "find_path"
    /\ search.open_set # <<>>
    /\ ~near_goal(Head(search.open_set)[3], goal)
    /\ search' = search_pass(search, goal, obstacles, search_margin)
    /\ UNCHANGED <<planVars, search_margin, attempts, direct_called, navVars>>
    /\ StepTaken

\* The vision find_path pops a point near the goal and returns the path to
\* it, which find_path_with_adaptive_margin returns in turn.
SearchFound ==
    /\ pc = "find_path"
    /\ search.open_set # <<>>
    /\ near_goal(Head(search.open_set)[3], goal)
    /\ plan' = [found     |-> TRUE,
                path      |-> <<start>> \o
                              reconstruct_path(search.came_from,
                                               Head(search.open_set)[3], <<>>),
                g_score   |-> search.g_score,
                came_from |-> search.came_from,
                updated   |-> {}]
    /\ attempts' = Append(attempts, [margin |-> search_margin, path |-> plan'.path])
    /\ pc' = "returned"
    /\ UNCHANGED <<obstacles, start, goal, optimized_path, search, search_margin, direct_called, navVars>>
    /\ StepTaken

\* A faulty ladder that reduces the margin by 20 after a failure; C7 fails
\* on it.
SearchExhausted_skips_margin ==
    /\ pc = "find_path"
    /\ search.open_set = <<>>
    /\ attempts' = Append(attempts, [margin |-> search_margin, path |-> <<>>])
    /\ IF Len(attempts') < 3
       THEN /\ search_margin' = safety_margin - 20 * Len(attempts')
            /\ search' = search_entry(start)
            /\ UNCHANGED <<plan, pc, direct_called>>
       ELSE /\ plan' = [NoPath EXCEPT !.path = <<start>>]
            /\ direct_called' = TRUE
            /\ pc' = "find_direct_path"
            /\ UNCHANGED <<search, search_margin>>
    /\ UNCHANGED <<obstacles, start, goal, optimized_path, navVars>>
    /\ StepTaken

\* The vision find_path empties its open set and returns None:
\* find_path_with_adaptive_margin calls it again with the margin reduced
\* by 10, and after the third failure calls find_direct_path.
SearchExhausted ==
    /\ pc = "find_path"
    /\ search.open_set = <<>>
    /\ attempts' = Append(attempts, [margin |-> search_margin, path |-> <<>>])
    /\ IF Len(attempts') < 3
       THEN /\ search_margin' = safety_margin - 10 * Len(attempts')
            /\ search' = search_entry(start)
            /\ UNCHANGED <<plan, pc, direct_called>>
       ELSE /\ plan' = [NoPath EXCEPT !.path = <<start>>]
            /\ direct_called' = TRUE
            /\ pc' = "find_direct_path"
            /\ UNCHANGED <<search, search_margin>>
    /\ UNCHANGED <<obstacles, start, goal, optimized_path, navVars>>
    /\ StepTaken

\* One pass of the while loop of find_direct_path: append a point, and
\* return the path once it is longer than the cap.
DirectPass ==
    /\ pc = "find_direct_path"
    /\ SquaredDistance(plan.path[Len(plan.path)], goal) > robot_radius * robot_radius
    /\ plan' = [plan EXCEPT
                   !.path = Append(@, direct_next(@[Len(@)], goal, obstacles)),
                   !.found = Len(plan.path) + 1 > direct_cap]
    /\ pc' = IF plan'.found THEN "returned" ELSE pc
    /\ UNCHANGED <<obstacles, start, goal, optimized_path, ladderVars, navVars>>
    /\ StepTaken

\* find_direct_path is within robot_radius of the goal and returns.
DirectArrived ==
    /\ pc = "find_direct_path"
    /\ SquaredDistance(plan.path[Len(plan.path)], goal) <= robot_radius * robot_radius
    /\ plan' = [plan EXCEPT !.found = TRUE]
    /\ pc' = "returned"
    /\ UNCHANGED <<obstacles, start, goal, optimized_path, ladderVars, navVars>>
    /\ StepTaken

NextVision ==
    \/ SearchPass
    \/ SearchFound
    \/ SearchExhausted
    \/ DirectPass
    \/ DirectArrived

SpecVision == InitVision /\ [][NextVision]_vars

\* ------------------------------------------------- the hub and the two runs
\* What detect_objects finds in a capture: the robot, the goal and the
\* obstacle centres.  In turn: A* succeeds at the configured margin; fails
\* at it and succeeds at the next; fails at all three and the direct walker
\* arrives; fails at all three and the direct walker stops at its cap.
NavScenes ==
    { [robot |-> <<100, 100>>, goal |-> <<100, 40>>, obstacles |-> {}],
      [robot |-> <<100, 100>>, goal |-> <<100, 40>>, obstacles |-> {<<100, 120>>}],
      [robot |-> <<100, 100>>, goal |-> <<100, 40>>, obstacles |-> {<<100, 100>>}],
      [robot |-> <<0, 0>>, goal |-> <<640, 590>>, obstacles |-> {<<4, 4>>}] }

\* The positions at which navigate_to_goal is about to call the hub.
HubCalls ==
    {"get_obstacles", "get_robot_position", "capture", "capture_wait",
     "move", "check_collisions", "check_goal", "final_check"}

\* The positions inside find_path_with_adaptive_margin.
PlannerCalls == {"find_path", "find_direct_path", "returned"}

InLoop == loop_i > 0

InitNav ==
    /\ mode \in {"grid", "vision"}
    /\ obstacles = {}
    /\ start = IF mode = "grid" THEN default_start ELSE <<0, 0>>
    /\ goal = IF mode = "grid" THEN default_goal ELSE <<0, 0>>
    /\ plan = NoPath
    /\ optimized_path = <<>>
    /\ pc = IF mode = "grid" THEN "get_obstacles" ELSE "capture"
    /\ search = search_entry(start)
    /\ search_margin = safety_margin
    /\ attempts = <<>>
    /\ direct_called = FALSE
    /\ connected \in BOOLEAN
    /\ collision_count = 0
    /\ goal_reached = FALSE
    /\ latest_canvas_capture = "none"
    /\ loop_path = <<>>
    /\ loop_i = 0
    /\ outcome = "running"
    /\ moves_issued = 0
    /\ since_replan = <<>>
    /\ replanned = FALSE
    /\ rejected = 0
    /\ failure = "none"
    /\ goal_reported = FALSE
    /\ sensed = FALSE
    /\ initial_obstacles = <<>>
    /\ collision_seen = FALSE
    /\ last_poll = "none"
    /\ reset_since = FALSE
    /\ resets = 0
    /\ ws_loaded = 0 - 1
    /\ reset_answered = FALSE
    /\ processed_after = 0
    /\ steps = 0

\* navigate_to_goal returns False; kind is the failure that made it.
Fail(kind) ==
    /\ outcome' = "FAILED"
    /\ failure' = kind
    /\ pc' = "done"

\* The for loop takes the next element of the list it iterates, or ends.
NextIteration ==
    IF loop_i < Len(loop_path)
    THEN loop_i' = loop_i + 1 /\ pc' = "move"
    ELSE loop_i' = loop_i /\ pc' = "final_check"

\* ---- the simulators, through ws_handler
\* A simulator reports a collision: collision_count += 1.
SimCollision ==
    /\ outcome = "running" /\ pc \in HubCalls
    /\ connected
    /\ collision_count < MaxCollisions
    /\ collision_count' = collision_count + 1
    /\ UNCHANGED <<steps, pollVars, raceVars, planVars, ladderVars, connected, goal_reached,
                   latest_canvas_capture, loopVars, historyVars, reportVars>>

\* A simulator reports the goal reached: goal_reached = True.
SimGoalReached ==
    /\ outcome = "running" /\ pc \in HubCalls
    /\ connected
    /\ ~goal_reached
    /\ goal_reached' = TRUE
    /\ goal_reported' = (goal_reported \/ (InLoop /\ moves_issued > 0))
    /\ UNCHANGED <<steps, pollVars, raceVars, planVars, ladderVars, connected, collision_count,
                   latest_canvas_capture, loopVars, historyVars, failure, sensed>>

\* A simulator answers capture_canvas: latest_canvas_capture is replaced.
SimCapture ==
    /\ outcome = "running" /\ pc = "capture_wait"
    /\ connected
    /\ latest_canvas_capture # "fresh"
    /\ latest_canvas_capture' = "fresh"
    /\ UNCHANGED <<steps, pollVars, raceVars, planVars, ladderVars, connected, collision_count,
                   goal_reached, loopVars, historyVars, reportVars>>

\* The first simulator connects.
SimConnect ==
    /\ outcome = "running" /\ pc \in HubCalls
    /\ ~connected
    /\ connected' = TRUE
    /\ UNCHANGED <<steps, pollVars, raceVars, planVars, ladderVars, collision_count, goal_reached,
                   latest_canvas_capture, loopVars, historyVars, reportVars>>

\* The last simulator disconnects.
SimDisconnect ==
    /\ outcome = "running" /\ pc \in HubCalls
    /\ connected
    /\ connected' = FALSE
    /\ UNCHANGED <<steps, pollVars, raceVars, planVars, ladderVars, collision_count, goal_reached,
                   latest_canvas_capture, loopVars, historyVars, reportVars>>

\* ---- RobotNavigator.navigate_to_goal before its loop
\* get_obstacles: GET /obstacles answers 200 or not (server.py defines no
\* such route, another hub may); on 200 the blocked cells are set.
GetObstacles ==
    /\ mode = "grid" /\ pc = "get_obstacles"
    /\ \/ /\ \E cells \in BlockedSets : obstacles' = cells
          /\ sensed' = TRUE
          /\ pc' = "get_robot_position"
          /\ UNCHANGED <<outcome, failure>>
       \/ /\ Fail("SensingFailure")
          /\ UNCHANGED <<obstacles, sensed>>
    /\ UNCHANGED <<pollVars, raceVars, start, goal, plan, optimized_path, ladderVars, hubVars,
                   configVars, loop_path, loop_i, historyVars, goal_reported>>
    /\ StepTaken

\* get_robot_position returns self.start whatever GET /status answers;
\* then find_path and optimize_path, and the loop is entered.
GridPlan ==
    /\ mode = "grid" /\ pc = "get_robot_position" /\ ~InLoop
    /\ LET found_path == find_path(start, goal, obstacles)
           new_path == optimize_path(found_path.path, obstacles)
       IN  /\ plan' = found_path
           /\ IF found_path.found
              THEN /\ optimized_path' = new_path
                   /\ loop_path' = new_path
                   /\ loop_i' = 1
                   /\ pc' = "move"
                   /\ UNCHANGED <<outcome, failure>>
              ELSE /\ Fail("PlanningFailure")
                   /\ UNCHANGED <<optimized_path, loop_path, loop_i>>
    /\ UNCHANGED <<pollVars, raceVars, obstacles, start, goal, ladderVars, hubVars, configVars,
                   historyVars, goal_reported, sensed>>
    /\ StepTaken

\* A collision branch that restarts the loop on the path it has just
\* planned.
GridReplan_restarts ==
    /\ mode = "grid" /\ pc = "get_robot_position" /\ InLoop
    /\ LET found_path == find_path(start, goal, obstacles)
           new_path == optimize_path(found_path.path, obstacles)
       IN  /\ plan' = found_path
           /\ IF found_path.found
              THEN /\ optimized_path' = new_path
                   /\ replanned' = TRUE
                   /\ since_replan' = <<>>
                   /\ loop_path' = new_path
                   /\ loop_i' = 1
                   /\ pc' = "move"
                   /\ UNCHANGED <<outcome, failure>>
              ELSE /\ Fail("PlanningFailure")
                   /\ UNCHANGED <<optimized_path, loop_path, loop_i, replanned, since_replan>>
    /\ UNCHANGED <<pollVars, raceVars, obstacles, start, goal, ladderVars,
                   hubVars, configVars, moves_issued, rejected, goal_reported,
                   sensed>>
    /\ StepTaken

\* The collision branch of the grid loop: plan again from self.start,
\* rebind optimized_path, and continue the loop.
GridReplan ==
    /\ mode = "grid" /\ pc = "get_robot_position" /\ InLoop
    /\ LET found_path == find_path(start, goal, obstacles)
           new_path == optimize_path(found_path.path, obstacles)
       IN  /\ plan' = found_path
           /\ IF found_path.found
              THEN /\ optimized_path' = new_path
                   /\ replanned' = TRUE
                   /\ since_replan' = <<>>
                   /\ NextIteration
                   /\ UNCHANGED <<outcome, failure>>
              ELSE /\ Fail("PlanningFailure")
                   /\ UNCHANGED <<optimized_path, loop_i, replanned, since_replan>>
    /\ UNCHANGED <<pollVars, raceVars, obstacles, start, goal, ladderVars, hubVars, configVars,
                   loop_path, moves_issued, rejected, goal_reported, sensed>>
    /\ StepTaken

\* ---- VisionBasedNavigator.navigate_to_goal: sensing and planning
\* GET /capture: 400 when no simulator is connected, else capture_canvas
\* is broadcast and the handler starts to wait.
CaptureRequest ==
    /\ mode = "vision" /\ pc = "capture"
    /\ IF connected
       THEN /\ latest_canvas_capture' =
                   IF latest_canvas_capture = "none" THEN "none" ELSE "stale"
            /\ pc' = "capture_wait"
            /\ UNCHANGED <<outcome, failure>>
       ELSE /\ Fail("SensingFailure")
            /\ UNCHANGED latest_canvas_capture
    /\ UNCHANGED <<pollVars, raceVars, obstacles, start, goal, plan, optimized_path, ladderVars,
                   connected, collision_count, goal_reached, configVars,
                   loop_path, loop_i, historyVars, goal_reported, sensed>>
    /\ StepTaken

\* The handler finds latest_canvas_capture set and answers with it.
CaptureAnswer ==
    /\ mode = "vision" /\ pc = "capture_wait"
    /\ latest_canvas_capture # "none"
    /\ pc' = "detect"
    /\ UNCHANGED <<obstacles, start, goal, plan, optimized_path, ladderVars,
                   navVars>>
    /\ StepTaken

\* The handler waits three seconds in vain and answers 504.
CaptureTimeout ==
    /\ mode = "vision" /\ pc = "capture_wait"
    /\ latest_canvas_capture = "none"
    /\ Fail("Timeout")
    /\ UNCHANGED <<pollVars, raceVars, obstacles, start, goal, plan, optimized_path, ladderVars,
                   hubVars, configVars, loop_path, loop_i, historyVars,
                   goal_reported, sensed>>
    /\ StepTaken

\* detect_objects finds the robot and the goal, and
\* find_path_with_adaptive_margin is entered at the configured margin.
DetectObjects ==
    /\ mode = "vision" /\ pc = "detect"
    /\ \E seen \in NavScenes :
           /\ start' = seen.robot
           /\ goal' = seen.goal
           /\ obstacles' = seen.obstacles
    /\ search' = search_entry(start')
    /\ search_margin' = safety_margin
    /\ attempts' = <<>>
    /\ direct_called' = FALSE
    /\ sensed' = (latest_canvas_capture = "fresh")
    /\ pc' = "find_path"
    /\ UNCHANGED <<pollVars, raceVars, plan, optimized_path, hubVars, loopVars, historyVars,
                   failure, goal_reported>>
    /\ StepTaken

\* A faulty run that plans from the values it holds when detect_objects
\* finds no robot or no goal; C11 fails on it.
DetectNothing_goes_on ==
    /\ mode = "vision" /\ pc = "detect"
    /\ failure' = "SensingFailure"
    /\ search' = search_entry(start)
    /\ search_margin' = safety_margin
    /\ attempts' = <<>>
    /\ direct_called' = FALSE
    /\ pc' = "find_path"
    /\ UNCHANGED <<pollVars, raceVars, obstacles, start, goal, plan, optimized_path, hubVars,
                   loopVars, historyVars, goal_reported, sensed>>
    /\ StepTaken

\* detect_objects finds no robot or no goal.
DetectNothing ==
    /\ mode = "vision" /\ pc = "detect"
    /\ Fail("SensingFailure")
    /\ UNCHANGED <<pollVars, raceVars, obstacles, start, goal, plan, optimized_path, ladderVars,
                   hubVars, configVars, loop_path, loop_i, historyVars,
                   goal_reported, sensed>>
    /\ StepTaken

\* find_path_with_adaptive_margin has returned: an empty path ends the
\* run, the first path starts the loop, a later one is bound to path and
\* the loop continues.
PlanReturned ==
    /\ mode = "vision" /\ pc = "returned"
    /\ IF plan.path = <<>>
       THEN /\ Fail("PlanningFailure")
            /\ UNCHANGED <<loop_path, loop_i, since_replan, replanned>>
       ELSE IF ~InLoop
       THEN /\ loop_path' = plan.path
            /\ loop_i' = 1
            /\ pc' = "move"
            /\ UNCHANGED <<outcome, failure, since_replan, replanned>>
       ELSE /\ replanned' = TRUE
            /\ since_replan' = <<>>
            /\ NextIteration
            /\ UNCHANGED <<outcome, failure, loop_path>>
    /\ UNCHANGED <<pollVars, raceVars, obstacles, start, goal, plan, optimized_path, ladderVars,
                   hubVars, configVars, moves_issued, rejected, goal_reported,
                   sensed>>
    /\ StepTaken

\* ---- the loop of both navigators
\* Whether this pass of the loop polls the hub: always in the grid
\* navigator, when i % 5 == 0 in the vision navigator.
Polls == mode = "grid" \/ (loop_i - 1) % 5 = 0

\* A faulty loop that issues the rejected move again instead of ending the
\* run; C9 fails on it.
Move_retries ==
    /\ pc = "move"
    /\ goal_reached' = FALSE
    /\ moves_issued' = moves_issued + 1
    /\ since_replan' = Append(since_replan, loop_path[loop_i])
    /\ IF connected
       THEN /\ IF Polls
               THEN pc' = "check_collisions" /\ loop_i' = loop_i
               ELSE NextIteration
            /\ UNCHANGED rejected
       ELSE /\ rejected' = IF rejected = 0 THEN moves_issued' ELSE rejected
            /\ UNCHANGED <<pc, loop_i>>
    /\ UNCHANGED <<pollVars, raceVars, obstacles, start, goal, plan, optimized_path, ladderVars,
                   connected, collision_count, latest_canvas_capture,
                   configVars, loop_path, outcome, replanned, reportVars>>
    /\ StepTaken

\* move_robot: POST /move clears goal_reached and answers 400 when no
\* simulator is connected, which ends the run.
Move ==
    /\ pc = "move"
    /\ goal_reached' = FALSE
    /\ moves_issued' = moves_issued + 1
    /\ since_replan' = Append(since_replan, loop_path[loop_i])
    /\ IF connected
       THEN /\ IF Polls
               THEN pc' = "check_collisions" /\ loop_i' = loop_i
               ELSE NextIteration
            /\ UNCHANGED <<outcome, failure, rejected>>
       ELSE /\ rejected' = IF rejected = 0 THEN moves_issued' ELSE rejected
            /\ Fail("CommandFailure")
            /\ UNCHANGED loop_i
    /\ UNCHANGED <<pollVars, raceVars, obstacles, start, goal, plan, optimized_path, ladderVars,
                   connected, collision_count, latest_canvas_capture,
                   configVars, loop_path, replanned, goal_reported, sensed>>
    /\ StepTaken

\* A collision poll that reports a collision once only: it answers true
\* for a positive count until a poll has answered true, and false after.
CheckCollisions_reports_once ==
    /\ pc = "check_collisions"
    /\ pc' = IF collision_count > 0 /\ ~collision_seen
             THEN IF mode = "grid" THEN "get_robot_position" ELSE "capture"
             ELSE "check_goal"
    /\ sensed' = IF collision_count > 0 /\ ~collision_seen THEN FALSE ELSE sensed
    /\ collision_seen' = (collision_seen \/ collision_count > 0)
    /\ last_poll' = IF collision_count > 0 /\ ~collision_seen THEN "true" ELSE "false"
    /\ UNCHANGED <<raceVars, obstacles, start, goal, plan, optimized_path,
                   ladderVars, hubVars, loopVars, historyVars, failure,
                   goal_reported, reset_since, resets>>
    /\ StepTaken

\* check_collisions: GET /collisions, count > 0 starts a replan.
CheckCollisions ==
    /\ pc = "check_collisions"
    /\ pc' = IF collision_count > 0
             THEN IF mode = "grid" THEN "get_robot_position" ELSE "capture"
             ELSE "check_goal"
    /\ sensed' = IF collision_count > 0 THEN FALSE ELSE sensed
    /\ collision_seen' = (collision_seen \/ collision_count > 0)
    /\ last_poll' = IF collision_count > 0 THEN "true" ELSE "false"
    /\ UNCHANGED <<raceVars, obstacles, start, goal, plan, optimized_path,
                   ladderVars, hubVars, loopVars, historyVars, failure,
                   goal_reported, reset_since, resets>>
    /\ StepTaken

\* A faulty loop that goes on to the next waypoint after a goal poll that
\* returned true; C21 fails on it.
CheckGoal_goes_on ==
    /\ pc = "check_goal"
    /\ NextIteration
    /\ outcome' = IF goal_reached /\ pc' = "final_check"
                  THEN "GOAL_REACHED" ELSE outcome
    /\ UNCHANGED <<pollVars, raceVars, obstacles, start, goal, plan, optimized_path, ladderVars,
                   hubVars, configVars, loop_path, historyVars, reportVars>>
    /\ StepTaken

\* check_goal_reached inside the loop: GET /goal/status.
CheckGoal ==
    /\ pc = "check_goal"
    /\ IF goal_reached
       THEN /\ outcome' = "GOAL_REACHED"
            /\ pc' = "done"
            /\ UNCHANGED loop_i
       ELSE /\ NextIteration
            /\ UNCHANGED outcome
    /\ UNCHANGED <<pollVars, raceVars, obstacles, start, goal, plan, optimized_path, ladderVars,
                   hubVars, configVars, loop_path, historyVars, reportVars>>
    /\ StepTaken

\* The final check_goal_reached after the loop.
FinalCheck ==
    /\ pc = "final_check"
    /\ outcome' = IF goal_reached THEN "GOAL_REACHED" ELSE "FAILED"
    /\ failure' = IF goal_reached THEN failure ELSE "GoalNotReached"
    /\ pc' = "done"
    /\ UNCHANGED <<pollVars, raceVars, obstacles, start, goal, plan, optimized_path, ladderVars,
                   hubVars, configVars, loop_path, loop_i, historyVars,
                   goal_reported, sensed>>
    /\ StepTaken

NextNav ==
    \/ SimCollision
    \/ SimGoalReached
    \/ SimCapture
    \/ SimConnect
    \/ SimDisconnect
    \/ GetObstacles
    \/ GridPlan
    \/ GridReplan
    \/ CaptureRequest
    \/ CaptureAnswer
    \/ CaptureTimeout
    \/ DetectObjects
    \/ DetectNothing
    \/ SearchPass
    \/ SearchFound
    \/ SearchExhausted
    \/ DirectPass
    \/ DirectArrived
    \/ PlanReturned
    \/ Move
    \/ CheckCollisions
    \/ CheckGoal
    \/ FinalCheck

SpecNav == InitNav /\ [][NextNav]_vars

\* ---- A hub that answers every request
\* The navigator takes a step: a request it made is answered, or a call it
\* made returns.  Every position of a run has such a step, and each of them
\* is counted in steps or advances the loop.
NavigatorReturns ==
    /\ outcome = "running" /\ pc # "blocked"
    /\ \/ steps' = steps + 1 /\ loop_i' = loop_i
       \/ steps' = 0 /\ loop_i' = loop_i + 1

\* The navigator is one thread that takes its next step whenever it has
\* one, and every request it makes is answered.
SpecAnswered == InitNav /\ [][NextNav]_vars /\ WF_<<steps, loop_i>>(NavigatorReturns)

\* ---- Other clients of the hub, and requests that fail
\* The assignments of the /reset handler.
reset ==
    /\ collision_count' = 0
    /\ goal_reached' = FALSE
    /\ resets' = resets + 1
    /\ reset_answered' = TRUE
    /\ processed_after' = 0

\* Another client of the hub (the control page) posts /reset during the
\* run; the navigator can tell only at its next collision poll, so the
\* request is taken when such a poll is about to be made.
Reset ==
    /\ outcome = "running"
    /\ pc = "check_collisions"
    /\ resets < MaxResets
    /\ reset
    /\ reset_since' = (reset_since \/ collision_seen)
    /\ UNCHANGED <<steps, planVars, ladderVars, connected, latest_canvas_capture,
                   loopVars, historyVars, reportVars, collision_seen, last_poll,
                   ws_loaded>>

\* check_collisions when its request raises or is not answered with 200:
\* it returns False.  Explored for the poll that follows a poll answered
\* true.
CollisionPollFails ==
    /\ pc = "check_collisions"
    /\ last_poll = "true"
    /\ pc' = "check_goal"
    /\ last_poll' = "failed"
    /\ UNCHANGED <<obstacles, start, goal, plan, optimized_path, ladderVars,
                   hubVars, loopVars, historyVars, reportVars, collision_seen,
                   reset_since, resets, raceVars>>
    /\ StepTaken

\* A run with a simulator connected throughout: whether one is connected
\* has no part in what a collision poll returns.
InitOps == InitNav /\ connected

NextOps ==
    \/ SimCollision
    \/ SimGoalReached
    \/ SimCapture
    \/ Reset
    \/ GetObstacles
    \/ GridPlan
    \/ GridReplan
    \/ CaptureRequest
    \/ CaptureAnswer
    \/ DetectObjects
    \/ DetectNothing
    \/ SearchPass
    \/ SearchFound
    \/ SearchExhausted
    \/ DirectPass
    \/ DirectArrived
    \/ PlanReturned
    \/ Move
    \/ CheckCollisions
    \/ CollisionPollFails
    \/ CheckGoal
    \/ FinalCheck

SpecOps == InitOps /\ [][NextOps]_vars

\* ---- The hub's two threads
\* ws_handler runs in the asyncio thread and the routes in the Flask
\* thread; collision_count += 1 is a load of the global followed by a store
\* of the sum, and nothing orders the two against a route's handler.

\* ws_handler gets a collision message and loads collision_count.
CollisionLoad ==
    /\ connected
    /\ ws_loaded = 0 - 1
    /\ collision_count <= MaxCount
    /\ ws_loaded' = collision_count
    /\ UNCHANGED <<steps, pollVars, reset_answered, processed_after, planVars, ladderVars,
                   hubVars, loopVars, historyVars, reportVars>>

\* ws_handler stores the sum, which ends its processing of the message.
CollisionStore ==
    /\ ws_loaded # 0 - 1
    /\ collision_count' = ws_loaded + 1
    /\ ws_loaded' = 0 - 1
    /\ processed_after' = processed_after + 1
    /\ UNCHANGED <<steps, pollVars, reset_answered, planVars, ladderVars, connected,
                   goal_reached, latest_canvas_capture, loopVars, historyVars,
                   reportVars>>

\* POST /reset is answered, at any point of ws_handler.
HubReset ==
    /\ resets < MaxResets
    /\ reset
    /\ UNCHANGED <<steps, planVars, ladderVars, connected, latest_canvas_capture,
                   loopVars, historyVars, reportVars, collision_seen, last_poll,
                   reset_since, ws_loaded>>

NextHub ==
    \/ CollisionLoad
    \/ CollisionStore
    \/ HubReset
    \/ SimGoalReached
    \/ SimConnect
    \/ SimDisconnect

SpecHub == InitNav /\ [][NextHub]_vars

\* ---- A hub that stops answering
\* Every hub request of both navigators is requests.get or requests.post
\* called without timeout=, so a request the hub never answers never
\* returns: the navigator stays inside the call and takes no further step.
HubSilent ==
    /\ outcome = "running" /\ pc \in HubCalls
    /\ pc' = "blocked"
    /\ UNCHANGED <<obstacles, start, goal, plan, optimized_path,
                   ladderVars, navVars>>
    /\ StepTaken

NextHang == NextNav \/ HubSilent

\* The navigator is one thread that runs whenever it can take a step.
SpecHang == InitNav /\ [][NextHang]_vars /\ WF_vars(NextHang)

\* ------------------------------------------------------------------ claims
PathAvoids(p, obs) == \A k \in 1..Len(p) : p[k] \notin obs

\* Every pair of consecutive waypoints of p has a clear rasterized segment.
SegmentsClear(p, obs) ==
    \A k \in 1..(Len(p) - 1) : is_line_clear(p[k], p[k + 1], obs)

\* out is in_ restricted to some set of its indices, in increasing order.
IsSubsequence(out, in_) ==
    \E kept \in SUBSET (1..Len(in_)) :
        LET indices == SelectSeq([k \in 1..Len(in_) |-> k], LAMBDA k : k \in kept)
        IN  out = [k \in 1..Len(indices) |-> in_[indices[k]]]

Chebyshev(a, b) == Max(Abs(a[1] - b[1]), Abs(a[2] - b[2]))

\* C1: a path returned by find_path contains no blocked cell, its first and
\* its last cell included.  (Violated: the start cell is never tested.)
C1_PathAvoidsBlockedCells ==
    plan.found => PathAvoids(plan.path, obstacles)

\* C3, as stated: for every input path, every pair of consecutive waypoints
\* of optimize_path's output has a clear rasterized segment.  (Violated.)
C3_OutputSegmentsClear ==
    pc = "optimized" => SegmentsClear(optimized_path, obstacles)

\* C3, amended: when every pair of consecutive waypoints of the input has a
\* clear rasterized segment, so has every pair of consecutive waypoints of
\* the output of optimize_path.
C3_ClearInputGivesClearOutput ==
    (pc = "optimized" /\ SegmentsClear(plan.path, obstacles))
        => SegmentsClear(optimized_path, obstacles)

\* A three-waypoint input with clear consecutive segments whose direct
\* first-to-last segment is blocked, so that the middle waypoint is kept.
C3_Witness ==
    /\ pc = "optimized"
    /\ Len(plan.path) = 3
    /\ obstacles # {}
    /\ SegmentsClear(plan.path, obstacles)
    /\ ~is_line_clear(plan.path[1], plan.path[3], obstacles)
    /\ optimized_path = plan.path

\* C4: the output of optimize_path is a subsequence of its non-empty input,
\* with the same first and last waypoint and no more waypoints.
C4_OutputIsSubsequence ==
    pc = "optimized" =>
        /\ IsSubsequence(optimized_path, plan.path)
        /\ optimized_path[1] = plan.path[1]
        /\ optimized_path[Len(optimized_path)] = plan.path[Len(plan.path)]
        /\ Len(optimized_path) <= Len(plan.path)

\* An input of three distinct waypoints of which the middle one is dropped.
C4_Witness ==
    /\ pc = "optimized"
    /\ Len(plan.path) = 3
    /\ Cardinality({plan.path[k] : k \in 1..3}) = 3
    /\ Len(optimized_path) = 2

\* C5: a path of three or more waypoints whose first and last waypoints are
\* unblocked and joined by a clear rasterized segment is collapsed to
\* exactly <<first, last>>.
C5_ClearLineCollapses ==
    (/\ pc = "optimized"
     /\ Len(plan.path) >= 3
     /\ plan.path[1] \notin obstacles
     /\ plan.path[Len(plan.path)] \notin obstacles
     /\ is_line_clear(plan.path[1], plan.path[Len(plan.path)], obstacles))
        => optimized_path = <<plan.path[1], plan.path[Len(plan.path)]>>

\* A collapsed path whose dropped middle waypoint was a blocked cell.
C5_Witness ==
    /\ pc = "optimized"
    /\ Len(plan.path) = 3
    /\ plan.path[2] \in obstacles
    /\ plan.path[1] # plan.path[3]
    /\ is_line_clear(plan.path[1], plan.path[3], obstacles)
    /\ optimized_path = <<plan.path[1], plan.path[3]>>

\* C6: on a grid with no blocked cell find_path returns a path, and its
\* number of steps is max(|dx|, |dy|) between start and goal.
C6_DiagonalOptimalSteps ==
    (pc # "find_path" /\ obstacles = {}) =>
        /\ plan.found
        /\ Len(plan.path) - 1 = Chebyshev(start, goal)

\* A path on the empty grid that mixes a diagonal and an axis step.
C6_Witness ==
    /\ pc = "optimize_path"
    /\ obstacles = {}
    /\ Abs(start[1] - goal[1]) = 2
    /\ Abs(start[2] - goal[2]) = 1
    /\ Len(plan.path) = 3

\* The margins of find_path_with_adaptive_margin, in the order it tries them.
LadderMargins == <<safety_margin, safety_margin - 10, safety_margin - 20>>

IsPrefix(p, q) == Len(p) <= Len(q) /\ \A k \in 1..Len(p) : p[k] = q[k]

\* The path bound to the navigator's path variable.
CurrentPath == IF mode = "grid" THEN optimized_path ELSE plan.path

\* C7: find_path_with_adaptive_margin tries the margins M, M - 10 and
\* M - 20 in that order, every attempt before the last one it makes has
\* failed, the path it returns without the direct walker is the path of its
\* last attempt, and the direct walker is called exactly when all three
\* attempts have failed.
C7_FirstSuccessfulMarginReturned ==
    /\ Len(attempts) <= 3
    /\ \A k \in 1..Len(attempts) : attempts[k].margin = LadderMargins[k]
    /\ \A k \in 1..(Len(attempts) - 1) : attempts[k].path = <<>>
    /\ (pc = "returned" /\ ~direct_called) =>
           /\ attempts # <<>>
           /\ attempts[Len(attempts)].path # <<>>
           /\ plan.path = attempts[Len(attempts)].path
    /\ (attempts # <<>> /\ attempts[Len(attempts)].path # <<>>) => pc = "returned"
    /\ direct_called <=> (Len(attempts) = 3 /\ attempts[3].path = <<>>)

\* The search failed at M and succeeded at M - 10, whose path is returned.
C7_Witness ==
    /\ pc = "returned"
    /\ Len(attempts) = 2
    /\ attempts[1] = [margin |-> safety_margin, path |-> <<>>]
    /\ attempts[2].margin = safety_margin - 10
    /\ Len(attempts[2].path) > 1
    /\ plan.path = attempts[2].path
    /\ ~direct_called

\* C8: the path find_direct_path returns has at most 100 points and starts
\* at the given start.  (Violated: the cap is tested after the append, so
\* a capped path has 101 points.)
C8_DirectPathWithinCap ==
    (pc = "returned" /\ direct_called) =>
        /\ Len(plan.path) <= direct_cap
        /\ plan.path[1] = start

\* C2: after a replan, the move commands issued are the waypoints of the
\* new path in order from its first.  (Violated: the loop goes on over the
\* list it started with.)
C2_MovesFollowNewPath ==
    (replanned /\ pc \notin PlannerCalls) => IsPrefix(since_replan, CurrentPath)

\* C9: once a /move request is rejected the run has ended in FAILED, and no
\* /move request was issued after the rejected one.
C9_RejectedMoveEndsRun ==
    rejected # 0 =>
        /\ outcome = "FAILED"
        /\ pc = "done"
        /\ moves_issued = rejected

\* The second move of a run is rejected after the first was accepted.
C9_Witness ==
    /\ rejected = 2
    /\ moves_issued = 2
    /\ outcome = "FAILED"

\* C10: in vision mode, a plan for which the search failed at all three
\* margins and the direct walker stopped short of the goal has no move
\* command issued for it, and the run ends in FAILED.  (Violated: the
\* capped path is executed like any other.)
C10_CappedWalkerEndsRun ==
    (/\ mode = "vision"
     /\ pc \notin PlannerCalls
     /\ direct_called
     /\ plan.found
     /\ SquaredDistance(plan.path[Len(plan.path)], goal) > robot_radius * robot_radius)
        => /\ since_replan = <<>>
           /\ pc = "done" => outcome = "FAILED"

\* The failures of sensing and of planning.
BeforeMoving == {"SensingFailure", "Timeout", "PlanningFailure"}

\* C11: when the initial sensing or the initial planning fails, the run has
\* ended in FAILED and no /move request has been issued.
C11_InitialFailureIssuesNoMove ==
    (failure \in BeforeMoving /\ ~InLoop) =>
        /\ outcome = "FAILED"
        /\ pc = "done"
        /\ moves_issued = 0

\* The grid planner finds no path for the first plan.
C11_Witness ==
    /\ mode = "grid"
    /\ failure = "PlanningFailure"
    /\ ~InLoop
    /\ ~plan.found
    /\ outcome = "FAILED"
    /\ moves_issued = 0

\* C12: a run during whose loop a simulator reported the goal, and which
\* no sensing, planning or command failure ended, ends in GOAL_REACHED.
\* (Violated: the next /move request clears the hub's flag before it is
\* polled.)
C12_ReportedGoalEndsInSuccess ==
    (/\ goal_reported
     /\ pc = "done"
     /\ failure \notin BeforeMoving \cup {"CommandFailure"})
        => outcome = "GOAL_REACHED"

\* ceil((size + robot_size) / (2 * grid_size)).
CeilingMargin(obs) ==
    (obs.size + robot_size + 2 * grid_size - 1) \div (2 * grid_size)

\* The on-grid cells within CeilingMargin cells of the centre cell of obs.
CeilingCells(obs) ==
    {c \in (0..(cells_wide - 1)) \X (0..(cells_high - 1)) :
        /\ Abs(c[1] - obs.x \div grid_size) <= CeilingMargin(obs)
        /\ Abs(c[2] - obs.y \div grid_size) <= CeilingMargin(obs)}

\* C13: get_obstacles blocks, for each obstacle, exactly the on-grid cells
\* within ceil((size + robot_size) / (2 * cell size)) cells of its centre
\* cell on both axes.  (Violated: the code rounds down, with a least
\* margin of 1.)
C13_InflationUsesCeiling ==
    pc = "inflated" =>
        obstacles = UNION {CeilingCells(initial_obstacles[k]) :
                              k \in 1..Len(initial_obstacles)}

\* C14: the path a replanning cycle computes uses an obstacle set and a
\* robot position that the hub supplied during that cycle.  (Violated: the
\* grid navigator plans again from self.start on the obstacle set it holds,
\* and the hub answers the vision navigator's capture with the capture it
\* stored for an earlier request.)
C14_ReplanSensesFirst ==
    (replanned /\ since_replan = <<>> /\ pc \in {"move", "final_check"})
        => sensed

\* C15: every wait of a navigator on the hub is bounded by a timeout: when
\* the hub never answers a request, the run still terminates.  (Violated:
\* no request carries a timeout, the navigator blocks in the call.)
C15_SilentHubStillTerminates == (pc = "blocked") ~> (pc = "done")

RECURSIVE Closure(_, _, _)
\* The cells joined to the cells of seen by steps between 8-adjacent
\* in-bounds cells outside blocked; frontier holds the cells of seen whose
\* neighbours are still to be added.
Closure(seen, frontier, blocked) ==
    LET around == {<<f[1] + dx, f[2] + dy>> :
                       f \in frontier, dx \in {0 - 1, 0, 1}, dy \in {0 - 1, 0, 1}}
        more == ((around \cap Cells) \ blocked) \ seen
    IN  IF more = {} THEN seen ELSE Closure(seen \cup more, more, blocked)

Reachable == goal \in Closure({start}, {start}, obstacles)

\* C16: for unblocked start and goal, find_path terminates, returns a path
\* (from start to goal) when the goal is reachable from the start through
\* 8-adjacent in-bounds unblocked cells, and returns None exactly when it is
\* not reachable.
C16_PathFoundIffReachable ==
    (pc # "find_path" /\ start \notin obstacles /\ goal \notin obstacles)
        => /\ plan.found <=> Reachable
           /\ plan.found => /\ plan.path[1] = start
                            /\ plan.path[Len(plan.path)] = goal

C16_Witness ==
    /\ pc = "no_path" /\ ~plan.found
    /\ start \notin obstacles /\ goal \notin obstacles
    /\ ~Reachable

\* C17: a path returned by the vision find_path(start, goal, obstacles,
\* margin) begins at start, moves between consecutive points by exactly
\* step_size along exactly one axis, keeps every point after the start
\* inside the canvas and at distance >= margin from every obstacle centre,
\* and ends closer than 2 * robot_radius to the goal.
C17_SearchPathWellFormed ==
    (pc = "returned" /\ ~direct_called) =>
        LET p == plan.path
        IN  /\ p[1] = start
            /\ \A k \in 1..(Len(p) - 1) :
                   \/ Abs(p[k + 1][1] - p[k][1]) = step_size /\ p[k + 1][2] = p[k][2]
                   \/ Abs(p[k + 1][2] - p[k][2]) = step_size /\ p[k + 1][1] = p[k][1]
            /\ \A k \in 2..Len(p) :
                   /\ p[k][1] \in 0..(canvas_width - 1)
                   /\ p[k][2] \in 0..(canvas_height - 1)
                   /\ \A o \in obstacles :
                          (p[k][1] - o[1]) * (p[k][1] - o[1])
                            + (p[k][2] - o[2]) * (p[k][2] - o[2])
                              >= search_margin * search_margin
            /\ (p[Len(p)][1] - goal[1]) * (p[Len(p)][1] - goal[1])
                 + (p[Len(p)][2] - goal[2]) * (p[Len(p)][2] - goal[2])
                   < (2 * robot_radius) * (2 * robot_radius)

\* A path of several points returned at a reduced margin, in a scene where
\* some obstacle is closer than the margin to the start.
C17_Witness ==
    /\ pc = "returned" /\ ~direct_called
    /\ Len(plan.path) > 2
    /\ search_margin < safety_margin
    /\ \E o \in obstacles :
           SquaredDistance(start, o) < search_margin * search_margin

\* The point the direct walker would reach from current by its direct step.
DirectPoint(current) ==
    LET dx == goal[1] - current[1]
        dy == goal[2] - current[2]
        d2 == dx * dx + dy * dy
    IN  <<clamp(current[1] + direct_step(dx, d2), canvas_width),
          clamp(current[2] + direct_step(dy, d2), canvas_height)>>

\* current moved by step_size toward the goal along the axis of the larger
\* remaining delta, clamped, the other coordinate that of current.
AxisStep(current) ==
    LET dx == goal[1] - current[1]
        dy == goal[2] - current[2]
    IN  IF Abs(dx) > Abs(dy)
        THEN <<clamp(current[1] + (IF dx > 0 THEN step_size ELSE 0 - step_size),
                     canvas_width),
               current[2]>>
        ELSE <<current[1],
               clamp(current[2] + (IF dy > 0 THEN step_size ELSE 0 - step_size),
                     canvas_height)>>

\* C18: in the direct walker, whenever the direct step would land within
\* direct_margin of an obstacle, the point appended is the current point
\* moved by one stride along the axis of the larger remaining delta, the
\* other coordinate unchanged from the current point.  (Violated: the
\* other coordinate keeps the value of the direct step.)
C18_DeflectionKeepsOtherAxis ==
    direct_called =>
        \A k \in 1..(Len(plan.path) - 1) :
            (\E o \in obstacles :
                 SquaredDistance(DirectPoint(plan.path[k]), o)
                     < direct_margin * direct_margin)
                => plan.path[k + 1] = AxisStep(plan.path[k])

\* C19: along every path find_path reconstructs, the recorded g-score of
\* each waypoint is at least the recorded g-score of its predecessor in the
\* path, also when cells of the path had their g-score and predecessor
\* updated several times.
C19_GScoresNonDecreasing ==
    (pc # "find_path" /\ plan.found) =>
        \A k \in 1..(Len(plan.path) - 1) :
            plan.g_score[plan.path[k]] <= plan.g_score[plan.path[k + 1]]

\* A path of several waypoints through a cell whose g-score and predecessor
\* were overwritten during the search.
C19_Witness ==
    /\ pc # "find_path" /\ plan.found
    /\ Len(plan.path) > 2
    /\ \E k \in 2..Len(plan.path) : plan.path[k] \in plan.updated

FailureKinds == {"SensingFailure", "PlanningFailure", "CommandFailure", "Timeout"}

\* C20: what navigate_to_goal reports to its caller for a failed run
\* identifies the kind of failure that ended it.  (Violated: every failure
\* is reported by the same value, False.)
C20_OutcomeNamesFailureKind ==
    (pc = "done" /\ failure \in FailureKinds) => outcome = failure

\* The positions of navigate_to_goal at which check_goal_reached is called.
GoalPolls == {"check_goal", "final_check"}

\* C21: navigate_to_goal reports success only by a step that is a goal
\* poll answered true, such a poll ends the run in success at once, and
\* after it the run issues no move, polls no collision and plans no more.
C21_SuccessOnlyByTruePoll ==
    [][/\ (outcome' = "GOAL_REACHED" /\ outcome # "GOAL_REACHED")
              => (pc \in GoalPolls /\ goal_reached)
       /\ (pc \in GoalPolls /\ goal_reached /\ pc' # pc)
              => (pc' = "done" /\ outcome' = "GOAL_REACHED")
       /\ outcome = "GOAL_REACHED"
              => UNCHANGED <<pc, outcome, moves_issued, since_replan, replanned,
                             loop_i, plan, sensed>>]_vars

\* A run ended in success by a goal poll inside the loop, with waypoints of
\* the followed list still to go.
C21_Witness ==
    /\ outcome = "GOAL_REACHED" /\ pc = "done"
    /\ moves_issued > 0
    /\ loop_i < Len(loop_path)

\* C22: every path find_path(start, goal) returns has start as its first
\* cell and goal as its last, every cell inside the grid, and every two
\* consecutive cells distinct and differing by at most 1 in each coordinate.
C22_PathIsConnectedStartToGoal ==
    (pc # "find_path" /\ plan.found) =>
        LET p == plan.path
        IN  /\ Len(p) >= 1
            /\ p[1] = start
            /\ p[Len(p)] = goal
            /\ \A k \in 1..Len(p) :
                   /\ p[k][1] \in 0..(grid_width - 1)
                   /\ p[k][2] \in 0..(grid_height - 1)
            /\ \A k \in 1..(Len(p) - 1) :
                   /\ p[k] # p[k + 1]
                   /\ Abs(p[k + 1][1] - p[k][1]) <= 1
                   /\ Abs(p[k + 1][2] - p[k][2]) <= 1

\* A path round blocked cells that takes both an axis step and a diagonal
\* step.
C22_Witness ==
    /\ pc # "find_path" /\ plan.found
    /\ obstacles # {}
    /\ \E j, k \in 1..(Len(plan.path) - 1) :
           /\ Abs(plan.path[j + 1][1] - plan.path[j][1])
                + Abs(plan.path[j + 1][2] - plan.path[j][2]) = 1
           /\ Abs(plan.path[k + 1][1] - plan.path[k][1])
                + Abs(plan.path[k + 1][2] - plan.path[k][2]) = 2

\* C23: a /capture request answers 'success' only with a capture that a
\* simulator sent after this request's broadcast, so the capture stored for
\* an earlier request is never the result of a later one.  (Violated: the
\* handler answers with whatever latest_canvas_capture holds, and nothing
\* ever clears it.)
C23_CaptureAnsweredIsFresh ==
    (mode = "vision" /\ pc = "detect") => latest_canvas_capture = "fresh"

C26_CountIsMessagesSinceReset ==
    reset_answered => collision_count = processed_after

====
